---- MODULE Spec2Model ----
(***************************************************************************)
(* FirebaseStateManager (src/firebase_manager.py): a gateway object that   *)
(* opens a process-wide Firebase app, writes a marker document into each   *)
(* required collection, and saves / loads the trading state document with  *)
(* a timestamp-named copy in trading_state_history.                        *)
(*                                                                         *)
(* A document is a function from field names to values.  A collection is   *)
(* a function from the ids of the documents it holds to those documents.   *)
(* The clock counts sub-second ticks: isoformat() keeps the tick, while    *)
(* strftime('%Y%m%d_%H%M%S') keeps only the second the tick lies in.       *)
(***************************************************************************)
EXTENDS Integers, Sequences, FiniteSets, TLC

\* ---------------------------------------------------------------- bounds
NumGateways == 2
NumThreads == 2
MaxTick == 2
MaxSaves == 2
TicksPerSecond == 2

Gateways == 1..NumGateways
Threads == 1..NumThreads

\* ------------------------------------------------------------- constants
RequiredCollections ==
  <<"trading_state", "neural_models", "anomaly_logs", "healing_actions",
    "performance_metrics">>

RequiredSet == {RequiredCollections[i] : i \in 1..Len(RequiredCollections)}

MarkerId == "_initialization"
CurrentId == "current"
DefaultVersion == "1.0.0"
SERVER_TIMESTAMP == -1
MarkerPurpose == "Collection initialization marker"

MetaKeys == {"timestamp", "version", "last_updated"}
MarkerKeys == {"initialized_at", "purpose"}

\* the credential_path argument: not given, a path with no file, a path of a file
PathKinds == {"none", "missing", "file"}
\* os.getenv('FIREBASE_CREDENTIALS'): None, '' or a non-empty string
EnvKinds == {"unset", "empty", "json"}

\* the state mappings handed to save_trading_state
States ==
  { [a |-> "x"],
    [a |-> "y", b |-> "x"],
    [b |-> "y", version |-> "2.0.0"],
    [a |-> "y", timestamp |-> "user", last_updated |-> 0] }

EmptyDoc == [k \in {} |-> ""]
NoDocs == [d \in {} |-> EmptyDoc]

VARIABLES
  envCred,        \* the FIREBASE_CREDENTIALS environment variable
  defaultFile,    \* config/firebase_credentials.json exists
  apps,           \* number of apps in firebase_admin._apps
  clock,          \* datetime.utcnow(), in ticks
  constructed,    \* [g] __init__ has run for gateway g
  initialized,    \* [g] self.initialized
  db,             \* [g] self.db is a client (not None)
  ctor,           \* what the latest __init__ saw and did
  docs,           \* [collection][id] documents of the required collections
  history,        \* [id] documents of trading_state_history
  pc,             \* [t] position of thread t inside save_trading_state
  call,           \* [t] gateway, argument and state_with_meta of t's last save
  ret,            \* [t] what t's last call returned
  loaded,         \* [t] the mapping t's last load returned
  raised,         \* [t] t's last call let an exception reach the caller
  obs             \* bookkeeping of what has happened so far

vars == <<envCred, defaultFile, apps, clock, constructed, initialized, db, ctor,
          docs, history, pc, call, ret, loaded, raised, obs>>

\* ------------------------------------------------------- the document store
\* a merge write keeps the fields the data does not name
MergeFields(old, new) ==
  [k \in DOMAIN old \cup DOMAIN new |-> IF k \in DOMAIN new THEN new[k] ELSE old[k]]

\* the server replaces the SERVER_TIMESTAMP sentinel by its own time
ServerValue(data, now) ==
  [k \in DOMAIN data |->
     IF k = "last_updated" /\ data[k] = SERVER_TIMESTAMP THEN now ELSE data[k]]

\* collection(..).document(id).set(data, merge=merge)
DocumentSet(coll, id, data, merge, now) ==
  LET old == IF id \in DOMAIN coll THEN coll[id] ELSE EmptyDoc
      new == IF merge THEN MergeFields(old, ServerValue(data, now))
                      ELSE ServerValue(data, now)
  IN [d \in DOMAIN coll \cup {id} |-> IF d = id THEN new ELSE coll[d]]

\* a get that reports every document as existing
DocumentGetAlwaysExists(coll, id) ==
  [exists |-> TRUE, fields |-> IF id \in DOMAIN coll THEN coll[id] ELSE EmptyDoc]

\* collection(..).document(id).get(): doc.exists and doc.to_dict()
DocumentGet(coll, id) ==
  IF id \in DOMAIN coll THEN [exists |-> TRUE, fields |-> coll[id]]
                        ELSE [exists |-> FALSE, fields |-> EmptyDoc]

\* ------------------------------------------------------------- __init__
\* the environment variable tried before the explicit path
ResolveCredentialEnvFirst(path, env, deflt) ==
  IF env = "json" THEN "env"
  ELSE IF path = "file" THEN "explicit"
  ELSE IF deflt THEN "default"
  ELSE "none"

\* the credential source __init__ picks when no app is open yet
ResolveCredential(path, env, deflt) ==
  IF path = "file" THEN "explicit"
  ELSE IF env = "json" THEN "env"
  ELSE IF deflt THEN "default"
  ELSE "none"

\* only the FirebaseError clause
InitHandlesFirebaseOnly(exc) == exc = "FirebaseError"

\* the except clauses of __init__: FirebaseError, then Exception
InitHandles(exc) == exc \in {"FirebaseError", "FileNotFoundError", "Exception"}

\* the marker written without merge
MarkerWriteReplacing(coll, now) ==
  DocumentSet(coll, MarkerId,
              [initialized_at |-> now, purpose |-> MarkerPurpose], FALSE, now)

\* test_ref.set({initialized_at, purpose}, merge=True)
MarkerWrite(coll, now) ==
  DocumentSet(coll, MarkerId,
              [initialized_at |-> now, purpose |-> MarkerPurpose], TRUE, now)

RECURSIVE CollectionsLoop(_, _, _, _)
CollectionsLoop(i, acc, failing, now) ==
  IF i > Len(RequiredCollections) THEN acc
  ELSE LET c == RequiredCollections[i]
           step == [docs |-> IF c \in failing THEN acc.docs
                             ELSE [acc.docs EXCEPT ![c] = MarkerWrite(@, now)],
                    attempts |-> Append(acc.attempts, c),
                    exc |-> "none"]
       IN CollectionsLoop(i + 1, step, failing, now)

\* the loop with the try around it instead of inside it
RECURSIVE AbortingLoop(_, _, _, _)
AbortingLoop(i, acc, failing, now) ==
  IF i > Len(RequiredCollections) THEN acc
  ELSE LET c == RequiredCollections[i]
       IN IF c \in failing
            THEN [acc EXCEPT !.attempts = Append(@, c), !.exc = "Exception"]
            ELSE AbortingLoop(i + 1,
                   [acc EXCEPT !.docs[c] = MarkerWrite(@, now),
                               !.attempts = Append(@, c)],
                   failing, now)

InitializeCollectionsAborting(d, failing, now) ==
  AbortingLoop(1, [docs |-> d, attempts |-> <<>>, exc |-> "none"], failing, now)

\* _initialize_collections: every failure is caught inside the loop
InitializeCollections(d, failing, now) ==
  CollectionsLoop(1, [docs |-> d, attempts |-> <<>>, exc |-> "none"], failing, now)

NotConstructed ==
  [gw |-> 0, path |-> "none", open |-> FALSE, source |-> "-", attempts |-> <<>>,
   failing |-> {}, escaped |-> FALSE]

\* FirebaseStateManager(credential_path): credExc is what Certificate / json.loads /
\* initialize_app raise, clientExc what firestore.client() raises, failing the
\* collections whose marker write raises
Construct(g, path, credExc, clientExc, failing) ==
  LET open == apps > 0
      source == IF open THEN "skipped" ELSE ResolveCredential(path, envCred, defaultFile)
      exc1 == IF open THEN "none"
              ELSE IF source = "none" THEN "FileNotFoundError"
              ELSE credExc
      exc2 == IF exc1 # "none" THEN exc1 ELSE clientExc
      res == IF exc2 = "none" THEN InitializeCollections(docs, failing, clock)
             ELSE [docs |-> docs, attempts |-> <<>>, exc |-> "none"]
      exc == IF exc2 # "none" THEN exc2 ELSE res.exc
  IN /\ ~constructed[g]
     /\ constructed' = [constructed EXCEPT ![g] = TRUE]
     /\ apps' = IF ~open /\ exc1 = "none" THEN apps + 1 ELSE apps
     /\ db' = [db EXCEPT ![g] = (exc2 = "none")]
     /\ initialized' = [initialized EXCEPT ![g] = (exc = "none")]
     /\ docs' = res.docs
     /\ ctor' = [gw |-> g, path |-> path, open |-> open, source |-> source,
                 attempts |-> res.attempts,
                 failing |-> IF exc2 = "none" THEN failing ELSE {},
                 escaped |-> exc # "none" /\ ~InitHandles(exc)]
     /\ obs' = [obs EXCEPT
                  !.noCredential = IF path # "file" /\ envCred # "json" /\ ~defaultFile
                                   THEN @ \cup {g} ELSE @,
                  !.reused = IF open THEN @ \cup {g} ELSE @,
                  !.escaped = IF exc # "none" /\ ~InitHandles(exc)
                              THEN @ \cup {g} ELSE @]
     /\ UNCHANGED <<envCred, defaultFile, clock, history, pc, call, ret, loaded,
                    raised>>

\* --------------------------------------------------- save_trading_state
\* the version always set to the default
StateWithMetaDefaultVersion(s, now) ==
  MergeFields(s, [timestamp |-> now, version |-> DefaultVersion,
                  last_updated |-> SERVER_TIMESTAMP])

\* state_with_meta: the state, then timestamp, version and last_updated
StateWithMeta(s, now) ==
  MergeFields(s, [timestamp |-> now,
                  version |-> IF "version" \in DOMAIN s THEN s["version"]
                              ELSE DefaultVersion,
                  last_updated |-> SERVER_TIMESTAMP])

\* strftime('%Y%m%d'): the day names the document
HistoryIdByDay(now) == 0

\* strftime('%Y%m%d_%H%M%S'): the second the tick lies in names the document
HistoryId(now) == now \div TicksPerSecond

\* only the FirebaseError clause
SaveHandlesFirebaseOnly(exc) == exc = "FirebaseError"

\* the except clauses of save_trading_state: FirebaseError, then Exception
SaveHandles(exc) == exc \in {"FirebaseError", "Exception"}

Outcomes == {"none", "FirebaseError", "Exception"}

Busy(t) == pc[t] # "idle"

SaveBegin(t, g, s) ==
  /\ pc[t] = "idle"
  /\ constructed[g]
  /\ obs.saves < MaxSaves
  /\ IF ~initialized[g]
       THEN /\ ret' = [ret EXCEPT ![t] = "False"]
            /\ pc' = pc
            /\ call' = [call EXCEPT ![t] =
                          [op |-> "save", gw |-> g, arg |-> s, meta |-> EmptyDoc, fresh |-> FALSE,
                           read |-> "none", afterSave |-> FALSE,
                           wroteCurrent |-> FALSE, wroteHistory |-> FALSE]]
            /\ obs' = [obs EXCEPT !.saves = @ + 1]
       ELSE /\ ret' = [ret EXCEPT ![t] = "-"]
            /\ pc' = [pc EXCEPT ![t] = "current"]
            /\ call' = [call EXCEPT ![t] =
                          [op |-> "save", gw |-> g, arg |-> s,
                           meta |-> StateWithMeta(s, clock),
                           fresh |-> FALSE, read |-> "none", afterSave |-> FALSE,
                           wroteCurrent |-> FALSE, wroteHistory |-> FALSE]]
            /\ obs' = [obs EXCEPT !.saves = @ + 1,
                                  !.overlapped = @ \/ \E u \in Threads \ {t} : Busy(u)]
  /\ raised' = [raised EXCEPT ![t] = FALSE]
  /\ loaded' = [loaded EXCEPT ![t] = EmptyDoc]
  /\ UNCHANGED <<envCred, defaultFile, apps, clock, constructed, initialized, db,
                 ctor, docs, history>>

\* the write to trading_state/current, merge=True
SaveCurrent(t, exc) ==
  /\ pc[t] = "current"
  /\ IF exc = "none"
       THEN /\ docs' = [docs EXCEPT !["trading_state"] =
                          DocumentSet(@, CurrentId, call[t].meta, TRUE, clock)]
            /\ pc' = [pc EXCEPT ![t] = "history"]
            /\ call' = [u \in Threads |->
                          [call[u] EXCEPT !.fresh = FALSE,
                                          !.wroteCurrent = @ \/ u = t]]
            /\ obs' = [obs EXCEPT !.currentWrites = @ + 1,
                                  !.usedBackend = @ \cup {call[t].gw}]
            /\ UNCHANGED <<ret, raised>>
       ELSE /\ pc' = [pc EXCEPT ![t] = "idle"]
            /\ ret' = [ret EXCEPT ![t] = IF SaveHandles(exc) THEN "False" ELSE "-"]
            /\ raised' = [raised EXCEPT ![t] = ~SaveHandles(exc)]
            /\ obs' = [obs EXCEPT !.failedWrites = @ + 1,
                                  !.usedBackend = @ \cup {call[t].gw}]
            /\ UNCHANGED <<docs, call>>
  /\ UNCHANGED <<envCred, defaultFile, apps, clock, constructed, initialized, db,
                 ctor, history, loaded>>

\* the write to trading_state_history/state_<YYYYMMDD_HHMMSS>, no merge
SaveHistory(t, exc) ==
  /\ pc[t] = "history"
  /\ pc' = [pc EXCEPT ![t] = "idle"]
  /\ IF exc = "none"
       THEN /\ history' = DocumentSet(history, HistoryId(clock), call[t].meta,
                                      FALSE, clock)
            /\ ret' = [ret EXCEPT ![t] = "True"]
            /\ call' = [call EXCEPT ![t].fresh = TRUE, ![t].wroteHistory = TRUE]
            /\ obs' = [obs EXCEPT !.okSaves = Append(@,
                          [arg |-> call[t].arg, began |-> call[t].meta["timestamp"],
                           ended |-> clock])]
            /\ UNCHANGED raised
       ELSE /\ ret' = [ret EXCEPT ![t] = IF SaveHandles(exc) THEN "False" ELSE "-"]
            /\ raised' = [raised EXCEPT ![t] = ~SaveHandles(exc)]
            /\ obs' = [obs EXCEPT !.failedWrites = @ + 1]
            /\ UNCHANGED <<history, call>>
  /\ UNCHANGED <<envCred, defaultFile, apps, clock, constructed, initialized, db,
                 ctor, docs, loaded>>

\* --------------------------------------------------- load_trading_state
\* the document is missing, or the read raised: the rest of the method
LoadAbsent == [ret |-> "None", fields |-> EmptyDoc, raised |-> FALSE]

\* if doc.exists: return doc.to_dict()
LoadResult(doc) ==
  IF doc.exists THEN [ret |-> "Mapping", fields |-> doc.fields, raised |-> FALSE]
  ELSE LoadAbsent

Load(t, g, exc) ==
  LET r == IF ~initialized[g]
             THEN [ret |-> "None", fields |-> EmptyDoc, raised |-> FALSE]
           ELSE IF exc # "none" THEN LoadAbsent
           ELSE LoadResult(DocumentGet(docs["trading_state"], CurrentId))
  IN /\ pc[t] = "idle"
     /\ constructed[g]
     /\ ret' = [ret EXCEPT ![t] = r.ret]
     /\ loaded' = [loaded EXCEPT ![t] = r.fields]
     /\ raised' = [raised EXCEPT ![t] = r.raised]
     /\ call' = [call EXCEPT ![t].op = "load", ![t].gw = g,
                             ![t].read = IF ~initialized[g] THEN "none"
                                         ELSE IF exc # "none" THEN "raised"
                                         ELSE "done",
                             ![t].afterSave = call[t].fresh /\ initialized[g]
                                              /\ exc = "none"]
     /\ obs' = [obs EXCEPT !.usedBackend =
                  IF initialized[g] THEN @ \cup {g} ELSE @]
     /\ UNCHANGED <<envCred, defaultFile, apps, clock, constructed, initialized, db,
                    ctor, docs, history, pc>>

\* ------------------------------------------------------------ the clock
Tick ==
  /\ clock < MaxTick
  /\ clock' = clock + 1
  /\ UNCHANGED <<envCred, defaultFile, apps, constructed, initialized, db, ctor,
                 docs, history, pc, call, ret, loaded, raised, obs>>

\* --------------------------------------------------------- specification
\* collections that may already hold a foreign document named _initialization
PreMarked == {"trading_state", "anomaly_logs"}
ForeignDoc == [owner |-> "ops"]

NoCall ==
  [op |-> "none", gw |-> 1, arg |-> EmptyDoc, meta |-> EmptyDoc, fresh |-> FALSE,
   read |-> "none", afterSave |-> FALSE, wroteCurrent |-> FALSE, wroteHistory |-> FALSE]

InitWith(envs, defaults, pres) ==
  /\ envCred \in envs
  /\ defaultFile \in defaults
  /\ apps = 0
  /\ clock = 0
  /\ constructed = [g \in Gateways |-> FALSE]
  /\ initialized = [g \in Gateways |-> FALSE]
  /\ db = [g \in Gateways |-> FALSE]
  /\ ctor = NotConstructed
  /\ \E pre \in pres :
       docs = [c \in RequiredSet |->
                 IF c \in pre THEN [d \in {MarkerId} |-> ForeignDoc] ELSE NoDocs]
  /\ history = NoDocs
  /\ pc = [t \in Threads |-> "idle"]
  /\ call = [t \in Threads |-> NoCall]
  /\ ret = [t \in Threads |-> "-"]
  /\ loaded = [t \in Threads |-> EmptyDoc]
  /\ raised = [t \in Threads |-> FALSE]
  /\ obs = [saves |-> 0, currentWrites |-> 0, failedWrites |-> 0,
            okSaves |-> <<>>, overlapped |-> FALSE, usedBackend |-> {},
            noCredential |-> {}, reused |-> {}, escaped |-> {}]

\* one caller saves and loads through gateways built with or without a credential
\* file; the store starts empty and any backend write or read may raise
Init == InitWith({"unset"}, {FALSE}, {{}})

Next ==
  \/ \E g \in Gateways, path \in {"none", "file"} :
       Construct(g, path, "none", "none", {})
  \/ \E g \in Gateways, s \in States : SaveBegin(1, g, s)
  \/ \E exc \in Outcomes : SaveCurrent(1, exc)
  \/ \E exc \in Outcomes : SaveHistory(1, exc)
  \/ \E g \in Gateways, exc \in Outcomes : Load(1, g, exc)
  \/ Tick

Spec == Init /\ [][Next]_vars

\* several callers save at once through an initialized gateway
NextConcurrent ==
  \/ \E g \in Gateways : Construct(g, "file", "none", "none", {})
  \/ \E t \in Threads, g \in Gateways, s \in States : SaveBegin(t, g, s)
  \/ \E t \in Threads, exc \in Outcomes : SaveCurrent(t, exc)
  \/ \E t \in Threads, exc \in Outcomes : SaveHistory(t, exc)
  \/ Tick

SpecConcurrent == Init /\ [][NextConcurrent]_vars

\* construction under every credential environment; one caller saves and loads
SmallStates == {[a |-> "x"]}

InitCredentials == InitWith(EnvKinds, BOOLEAN, {{}})

NextCredentials ==
  \/ \E g \in Gateways, path \in PathKinds, credExc \in Outcomes,
        clientExc \in Outcomes :
       Construct(g, path, credExc, clientExc, {})
  \/ \E g \in Gateways, s \in SmallStates : SaveBegin(1, g, s)
  \/ SaveCurrent(1, "none")
  \/ SaveHistory(1, "none")
  \/ \E g \in Gateways, exc \in Outcomes : Load(1, g, exc)
  \/ Tick

SpecCredentials == InitCredentials /\ [][NextCredentials]_vars

\* collection initialization with every set of failing marker writes, over a store
\* that may already hold foreign marker documents; one caller saves once and loads
InitCollections == InitWith({"json"}, {FALSE}, {{}, PreMarked})

NextCollections ==
  \/ \E g \in Gateways, failing \in SUBSET RequiredSet :
       Construct(g, "none", "none", "none", failing)
  \/ \E g \in Gateways, s \in SmallStates : obs.saves = 0 /\ SaveBegin(1, g, s)
  \/ SaveCurrent(1, "none")
  \/ SaveHistory(1, "none")
  \/ \E g \in Gateways, exc \in Outcomes : Load(1, g, exc)
  \/ Tick

SpecCollections == InitCollections /\ [][NextCollections]_vars

\* ------------------------------------------------------------- the claims
Idle == \A t \in Threads : pc[t] = "idle"
CurrentDocs == docs["trading_state"]

\* what the calls made through gateway g have returned: every save false, every
\* load absent, nothing raised, and no read or write of the store
Unusable(g) ==
  /\ ~initialized[g]
  /\ g \notin obs.escaped
  /\ g \notin obs.usedBackend
  /\ \A t \in Threads :
       call[t].op # "none" /\ call[t].gw = g
         => /\ pc[t] = "idle"
            /\ ~raised[t]
            /\ call[t].op = "save" => ret[t] = "False"
            /\ call[t].op = "load" => ret[t] = "None"

\* C1 as stated: a gateway constructed with no credential in any of the three
\* sources ends uninitialized, its construction raises nothing, and its saves return
\* false and its loads absent without touching the store
C1_AsStated == \A g \in obs.noCredential : Unusable(g)

\* C1 amended: the same, for a gateway constructed with no credential in any of the
\* three sources while no process-wide app was open yet
C1_NoCredentialNoApp == \A g \in obs.noCredential \ obs.reused : Unusable(g)

\* a gateway built with nothing to find, in a process with no other gateway, has been
\* asked to save and then to load
C1_Witness ==
  \E g \in obs.noCredential \ obs.reused :
    /\ \A h \in Gateways \ {g} : ~constructed[h]
    /\ obs.saves > 0
    /\ call[1].op = "load" /\ call[1].gw = g /\ ret[1] = "None"

\* C2: a save through an initialized gateway returns true exactly when both the write
\* to the current document and the write to the history document were applied, returns
\* false otherwise, and never lets an exception out
C2_SaveReturn ==
  \A t \in Threads :
    call[t].op = "save" /\ pc[t] = "idle" /\ initialized[call[t].gw]
      => /\ ~raised[t]
         /\ ret[t] \in {"True", "False"}
         /\ ret[t] = "True" <=> (call[t].wroteCurrent /\ call[t].wroteHistory)

\* the current-state write was applied, the history write raised, the call returned
\* false
C2_Witness ==
  \E t \in Threads :
    /\ call[t].op = "save" /\ pc[t] = "idle"
    /\ call[t].wroteCurrent /\ ~call[t].wroteHistory
    /\ ret[t] = "False" /\ ~raised[t]

\* C3 as stated: whenever no save is under way, the number of writes applied to
\* trading_state/current equals the number of documents in trading_state_history
C3_AsStated == Idle => obs.currentWrites = Cardinality(DOMAIN history)

\* C4: a load that directly follows a successful save of s returns a mapping with
\* every key of s other than timestamp, version and last_updated at s's value, with
\* the three injected fields, and with s's version, or 1.0.0 when s has none
C4_SaveThenLoad ==
  \A t \in Threads :
    call[t].op = "load" /\ call[t].afterSave
      => /\ ret[t] = "Mapping"
         /\ \A k \in DOMAIN call[t].arg \ MetaKeys :
              k \in DOMAIN loaded[t] /\ loaded[t][k] = call[t].arg[k]
         /\ MetaKeys \subseteq DOMAIN loaded[t]
         /\ loaded[t]["version"] =
              IF "version" \in DOMAIN call[t].arg THEN call[t].arg["version"]
              ELSE "1.0.0"

\* a save that names its own version, loaded back together with a key of an earlier
\* save
C4_Witness ==
  \E t \in Threads :
    /\ call[t].op = "load" /\ call[t].afterSave
    /\ "version" \in DOMAIN call[t].arg
    /\ "a" \in DOMAIN loaded[t] /\ "a" \notin DOMAIN call[t].arg

SecondOf(tick) == tick \div TicksPerSecond
SecondsOf(save) == {SecondOf(save.began), SecondOf(save.ended)}

\* exactly two saves were made, one after the other, both succeeded, and they ran in
\* different clock seconds
TwoSavesInDifferentSeconds ==
  /\ Idle
  /\ obs.saves = 2 /\ Len(obs.okSaves) = 2
  /\ ~obs.overlapped
  /\ SecondsOf(obs.okSaves[1]) \cap SecondsOf(obs.okSaves[2]) = {}

C6_AsStated ==
  Idle /\ obs.overlapped /\ obs.failedWrites = 0
    => Cardinality(DOMAIN history) = Len(obs.okSaves)

\* C7: when the connection is made, every required collection's marker write is
\* attempted once, in order, whichever of them fail, the writes that did not fail are
\* applied, and the gateway ends initialized
C7_BestEffort ==
  ctor.gw # 0 /\ db[ctor.gw]
    => /\ ctor.attempts = <<"trading_state", "neural_models", "anomaly_logs",
                            "healing_actions", "performance_metrics">>
       /\ initialized[ctor.gw]
       /\ ctor.gw \notin obs.escaped
       /\ \A c \in RequiredSet \ ctor.failing :
            /\ MarkerId \in DOMAIN docs[c]
            /\ MarkerKeys \subseteq DOMAIN docs[c][MarkerId]

\* the second and the fourth marker write failed
C7_Witness ==
  /\ ctor.gw # 0
  /\ ctor.failing = {"neural_models", "healing_actions"}
  /\ initialized[ctor.gw]
  /\ MarkerId \in DOMAIN docs["performance_metrics"]

\* C8: a construction changes nothing in the store but the fields initialized_at and
\* purpose of the _initialization documents of the required collections
C8_InitKeepsData ==
  [][constructed' # constructed
       => /\ history' = history
          /\ \A c \in RequiredSet :
               /\ DOMAIN docs'[c] \subseteq DOMAIN docs[c] \cup {MarkerId}
               /\ \A d \in DOMAIN docs[c] :
                    /\ d \in DOMAIN docs'[c]
                    /\ d # MarkerId => docs'[c][d] = docs[c][d]
                    /\ \A k \in DOMAIN docs[c][d] \ MarkerKeys :
                         k \in DOMAIN docs'[c][d] /\ docs'[c][d][k] = docs[c][d][k]
               /\ MarkerId \in DOMAIN docs'[c] /\ MarkerId \notin DOMAIN docs[c]
                    => DOMAIN docs'[c][MarkerId] = MarkerKeys]_vars

\* the collections were initialized after a save, over a foreign marker document
C8_Witness ==
  /\ CurrentId \in DOMAIN CurrentDocs
  /\ MarkerId \in DOMAIN CurrentDocs
  /\ DOMAIN CurrentDocs[MarkerId] = MarkerKeys \cup {"owner"}
  /\ CurrentDocs[MarkerId]["initialized_at"] > CurrentDocs[CurrentId]["timestamp"]
  /\ DOMAIN history # {}

\* the source the claim names for a construction that finds no app open
Priority(path, envTaken, deflt) ==
  IF path = "file" THEN "explicit"
  ELSE IF envTaken THEN "env"
  ELSE IF deflt THEN "default"
  ELSE "none"

CredentialOrder(envTaken) ==
  /\ apps <= 1
  /\ ctor.gw # 0 =>
       IF ctor.open
         THEN ctor.source = "skipped"
         ELSE /\ ctor.source = Priority(ctor.path, envTaken, defaultFile)
              /\ ctor.source = "none" => ~initialized[ctor.gw] /\ apps = 0

\* C9 as stated: with no app open the credential is the explicit path if its file
\* exists, else the environment variable if it is set, else the default file if it
\* exists, else initialization fails; with an app open nothing is resolved or opened
C9_AsStated == CredentialOrder(envCred # "unset")

\* C9 amended: the same, the environment variable being taken only if it is set to a
\* non-empty value
C9_NonEmptyEnv == CredentialOrder(envCred \notin {"unset", "empty"})

\* a second gateway found the app of the first open
C9_Witness ==
  /\ ctor.gw # 0 /\ ctor.open /\ ctor.source = "skipped"
  /\ apps = 1
  /\ initialized[ctor.gw]

\* C10: a load through an initialized gateway returns absent while no save has
\* written trading_state/current, and a load returns a mapping only after one has
C10_LoadBeforeSave ==
  \A t \in Threads :
    call[t].op = "load"
      => /\ initialized[call[t].gw] /\ obs.currentWrites = 0 => ret[t] = "None"
         /\ ret[t] = "Mapping" => obs.currentWrites > 0

\* absent was returned although the marker document is in trading_state
C10_Witness ==
  \E t \in Threads :
    /\ call[t].op = "load" /\ initialized[call[t].gw]
    /\ call[t].read = "done"
    /\ obs.currentWrites = 0
    /\ ret[t] = "None"
    /\ MarkerId \in DOMAIN CurrentDocs
    /\ "purpose" \in DOMAIN CurrentDocs[MarkerId]

====
